---------------------------- MODULE Spec2Model ----------------------------
(***************************************************************************)
(* Model of the flow deletion scripts src/flow-delete.js (the driver, its  *)
(* manifest merge, its descriptor deactivation and its version query) and  *)
(* of the functions src/flowDelete.js defines differently.                 *)
(*                                                                         *)
(* A JavaScript string is a sequence of one-character strings, so that     *)
(* split('-'), template literals and number formatting are computed and    *)
(* not assumed.  A file is what its XML holds; parse and toXML convert it  *)
(* to and from the shapes fast-xml-parser gives (no child: undefined, one  *)
(* child: a scalar, several: an array).                                    *)
(***************************************************************************)
EXTENDS Integers, Sequences, FiniteSets, TLC

\* ------------------------------------------------------------------ bounds
\* Longest delete list (members of the destructive manifest's Flow type).
MaxMembers == 2
\* Number of consecutive runs of the driver on the same files.
MaxRuns == 2

\* ----------------------------------------------------------------- strings
Range(s) == {s[i] : i \in 1..Len(s)}

\* JavaScript undefined: distinct from every string, whose elements are
\* single characters.
Undefined == <<"undefined">>

\* String.prototype.split(sep) for a one-character separator.
RECURSIVE split(_, _)
split(s, sep) ==
  IF \E i \in 1..Len(s) : s[i] = sep
  THEN LET i == CHOOSE k \in 1..Len(s) :
                  s[k] = sep /\ \A j \in 1..(k - 1) : s[j] # sep
       IN  <<SubSeq(s, 1, i - 1)>> \o split(SubSeq(s, i + 1, Len(s)), sep)
  ELSE <<s>>

\* Array.prototype.at(0)
atZero(arr) == IF Len(arr) = 0 THEN Undefined ELSE arr[1]

\* flow-delete.js: (flow) => flow.split('-').at(0)
stripVersion(flow) == atZero(split(flow, "-"))

\* Number to decimal string, as a template literal formats a number.
DigitChars == <<"0", "1", "2", "3", "4", "5", "6", "7", "8", "9">>

RECURSIVE NumberToString(_)
NumberToString(n) ==
  IF n < 10 THEN <<DigitChars[n + 1]>>
  ELSE NumberToString(n \div 10) \o <<DigitChars[(n % 10) + 1]>>

\* `${version.Definition.DeveloperName}-${version.VersionNumber}`
formatVersion(version) ==
  version.DeveloperName \o <<"-">> \o NumberToString(version.VersionNumber)

\* flows.filter(Boolean): the empty string is the only falsy string.
filterBoolean(flows) == SelectSeq(flows, LAMBDA f : f # <<>>)

\* [...new Set(members)]: first occurrences, in order.
RECURSIVE uniqueMembers(_)
uniqueMembers(members) ==
  IF members = <<>> THEN <<>>
  ELSE LET front == uniqueMembers(SubSeq(members, 1, Len(members) - 1))
           last  == members[Len(members)]
       IN  IF last \in Range(front) THEN front ELSE Append(front, last)

\* --------------------------------------------------------------- documents
\* A manifest file: whether it has a Package root (with its version child)
\* and the <types> elements under it, each with a name and its <members>.
TypeEntry(name, members) == [name |-> name, members |-> members]
Document(types) == [Package |-> TRUE, types |-> types]
NoPackageDocument == [Package |-> FALSE, types |-> <<>>]

\* The value the parser gives for the children of one tag name.
parseChildren(children) ==
  [shape |-> IF Len(children) = 0 THEN "undefined"
             ELSE IF Len(children) = 1 THEN "scalar" ELSE "array",
   items |-> children]

jsArray(items) == [shape |-> "array", items |-> items]

isArray(value) == value.shape = "array"

\* parse(readFile(path)) of a manifest
parse(doc) ==
  [Package |-> doc.Package,
   types   |-> parseChildren(
                 [i \in 1..Len(doc.types) |->
                    [name    |-> doc.types[i].name,
                     members |-> parseChildren(doc.types[i].members)]])]

\* The children the builder writes for a value: nothing for undefined or an
\* empty array, one element per item otherwise.
buildChildren(value) == IF value.shape = "undefined" THEN <<>> ELSE value.items

\* toXML(manifest) of a manifest whose Package.types is an array
toXML(manifest) ==
  [Package |-> manifest.Package,
   types   |-> [i \in 1..Len(manifest.types.items) |->
                  [name    |-> manifest.types.items[i].name,
                   members |-> buildChildren(manifest.types.items[i].members)]]]

\* types.find((element) => element.name === type): its index, 0 if none.
findType(types, name) ==
  IF \E i \in 1..Len(types) : types[i].name = name
  THEN CHOOSE i \in 1..Len(types) :
         types[i].name = name /\ \A j \in 1..(i - 1) : types[j].name # name
  ELSE 0

\* flow-delete.js filterType: the members of the named type, always an array.
filterType(manifest, name) ==
  IF ~manifest.Package \/ manifest.types.shape = "undefined"
  THEN [name |-> name, members |-> <<>>]
  ELSE LET types == manifest.types.items
           k     == findType(types, name)
       IN  IF k = 0 THEN [name |-> name, members |-> <<>>]
           ELSE [name    |-> name,
                 members |-> IF isArray(types[k].members)
                             THEN types[k].members.items
                             ELSE IF types[k].members.shape = "scalar"
                                  THEN types[k].members.items
                                  ELSE <<Undefined>>]

\* A found element keeping its members and adding the new ones.
mergedWithExisting(existing, members) == uniqueMembers(existing \o members)

\* element.members = [...new Set(members)]: what a found element, whose
\* members were `existing`, is given.
assignedMembers(existing, members) == uniqueMembers(members)

\* updateManifest from types.find to types.push, the same in both scripts:
\* the types array after the named element is updated or a new one pushed.
updatedTypes(types, members, type) ==
  LET k == findType(types, type)
  IN  IF k # 0
      THEN [types EXCEPT
              ![k].members = jsArray(assignedMembers(
                                       buildChildren(types[k].members), members))]
      ELSE Append(types, [name |-> type, members |-> jsArray(members)])

\* flow-delete.js updateManifest: the file after the call, or threw when
\* manifest.Package is undefined and nothing is written.
updateManifest(doc, members, type) ==
  LET manifest == parse(doc)
  IN  IF ~manifest.Package THEN [threw |-> TRUE, doc |-> doc]
      ELSE LET present == IF manifest.types.shape = "undefined"
                          THEN jsArray(<<>>) ELSE manifest.types
               updated == updatedTypes(present.items, members, type)
           IN  [threw |-> FALSE,
                doc   |-> toXML([Package |-> TRUE, types |-> jsArray(updated)])]

\* flowDelete.js updateManifest: without the `?? []`, a manifest with no
\* types gives [undefined], and find throws reading element.name.
updateManifestLegacy(doc, members, type) ==
  LET manifest == parse(doc)
  IN  IF ~manifest.Package \/ manifest.types.shape = "undefined"
      THEN [threw |-> TRUE, doc |-> doc]
      ELSE LET updated == updatedTypes(manifest.types.items, members, type)
           IN  [threw |-> FALSE,
                doc   |-> toXML([Package |-> TRUE, types |-> jsArray(updated)])]

\* ------------------------------------------------------------- descriptors
\* The flowDefinitions directory is the set of its files, one per flow name.
\* A file's content (fd) says whether it has a FlowDefinition root, its
\* activeVersionNumber, and rest, which stands for every other field.
DescriptorFile(flow, fd) == [flow |-> flow, fd |-> fd]

\* fs.existsSync(filePath)
existsSync(dir, flow) == \E f \in dir : f.flow = flow

\* parse(readFile(filePath)) of a descriptor that exists
readDescriptor(dir, flow) == (CHOOSE f \in dir : f.flow = flow).fd

\* writeFile(filePath, toXML(fd))
writeDescriptor(dir, flow, fd) ==
  {f \in dir : f.flow # flow} \cup {DescriptorFile(flow, fd)}

createFlowDefinition ==
  [root |-> TRUE, activeVersionNumber |-> 0, rest |-> "xmlns"]

\* fd.FlowDefinition.activeVersionNumber = 0 throws when fd has no
\* FlowDefinition root.
deactivationThrows(fd) == ~fd.root

\* fd.FlowDefinition.activeVersionNumber = 0
deactivated(fd) == [fd EXCEPT !.activeVersionNumber = 0]

\* flow-delete.js deactivateFlows, one iteration of its forEach: the
\* directory after it, or threw with nothing written.
deactivateFlow(dir, flow) ==
  IF existsSync(dir, flow)
  THEN LET fd == readDescriptor(dir, flow)
       IN  IF deactivationThrows(fd) THEN [threw |-> TRUE, dir |-> dir]
           ELSE [threw |-> FALSE,
                 dir   |-> writeDescriptor(dir, flow, deactivated(fd))]
  ELSE [threw |-> FALSE,
        dir   |-> writeDescriptor(dir, flow, createFlowDefinition)]

\* flowDelete.js deactivateFlows, one iteration of its second forEach:
\* readFile throws when the file does not exist.
deactivateFlowLegacy(dir, flow) ==
  IF ~existsSync(dir, flow) THEN [threw |-> TRUE, dir |-> dir]
  ELSE LET fd == readDescriptor(dir, flow)
       IN  IF deactivationThrows(fd) THEN [threw |-> TRUE, dir |-> dir]
           ELSE [threw |-> FALSE,
                 dir   |-> writeDescriptor(dir, flow, deactivated(fd))]

\* ------------------------------------------------------------ remote org
\* The records the query of line 143 selects: those whose
\* Definition.DeveloperName is one of the quoted names, in the org's order.
queryRecords(org, names) ==
  SelectSeq(org, LAMBDA r : r.DeveloperName \in Range(names))

\* fetchFlowVersions, lines 157-161: one identifier per record returned.
formattedFlowNames(records) ==
  [i \in 1..Len(records) |-> formatVersion(records[i])]

\* ------------------------------------------------------------------ inputs
FlowA == <<"A">>
FlowB == <<"B">>
FlowC == <<"C">>

\* Members a destructive manifest may list: bare names, names qualified by
\* a version, a name that holds the separator, and an empty member.
MemberStrings ==
  { FlowA, FlowB,
    <<"A", "-", "1">>, <<"A", "-", "2">>,
    <<"A", "-", "B", "-", "1">>,
    <<>> }

MemberLists == UNION {[1..n -> MemberStrings] : n \in 1..MaxMembers}

OtherType == TypeEntry("ApexClass", << <<"X">> >>)

DestructiveDocuments ==
  { NoPackageDocument, Document(<<>>), Document(<<OtherType>>),
    Document(<<TypeEntry("Flow", <<>>)>>) }
  \cup {Document(<<TypeEntry("Flow", m)>>) : m \in MemberLists}
  \cup {Document(<<OtherType, TypeEntry("Flow", m)>>) : m \in MemberLists}

ExistingDefinitions == { <<FlowA>>, <<FlowC>>, <<FlowC, FlowA>> }

PackageDocuments ==
  { NoPackageDocument, Document(<<>>), Document(<<OtherType>>) }
  \cup {Document(<<TypeEntry("FlowDefinition", e)>>) : e \in ExistingDefinitions}
  \cup {Document(<<OtherType, TypeEntry("FlowDefinition", e)>>) :
          e \in ExistingDefinitions}

ActiveDescriptor(rest) ==
  [root |-> TRUE, activeVersionNumber |-> 3, rest |-> rest]
RootlessDescriptor ==
  [root |-> FALSE, activeVersionNumber |-> 0, rest |-> "none"]

DescriptorDirectories ==
  { {},
    {DescriptorFile(FlowA, ActiveDescriptor("label"))},
    {DescriptorFile(FlowA, ActiveDescriptor("label")),
     DescriptorFile(FlowB, ActiveDescriptor("description"))},
    {DescriptorFile(FlowB, RootlessDescriptor)} }

Record(name, version) == [DeveloperName |-> name, VersionNumber |-> version]

RemoteOrgs ==
  { <<>>,
    <<Record(FlowA, 1), Record(FlowA, 2)>>,
    <<Record(FlowA, 2), Record(FlowB, 1), Record(FlowB, 12)>>,
    <<Record(FlowB, 1), Record(<<"A", "-", "B">>, 3), Record(FlowA, 4)>> }

\* ------------------------------------------------------------------- state
VARIABLES
  pc,               \* where the script is: start, deactivate, updatePackage,
                    \* query, updateDestructive, done, noop, aborted
  run,              \* which consecutive run of the driver this is
  packageFile,      \* the file at packagePath
  destructiveFile,  \* the file at destructivePath
  descriptors,      \* the flowDefinition files, by flow name
  remote,           \* the org's flow version records
  deletedFlows,     \* const deletedFlows
  flowDefinitions,  \* const flowDefinitions
  index,            \* position of forEach in deactivateFlows
  versions,         \* the value fetchFlowVersions returned
  effects,          \* this run's writes and queries, in order
  atStart,          \* the files when this run started
  afterFirst,       \* the files when the first run ended
  script,           \* the script whose functions run
  typeArg           \* the type argument of a direct call of updateManifest

vars == <<pc, run, packageFile, destructiveFile, descriptors, remote,
          deletedFlows, flowDefinitions, index, versions, effects, atStart,
          afterFirst, script, typeArg>>

Files == [package     |-> packageFile,
          destructive |-> destructiveFile,
          descriptors |-> descriptors]

Effect(op, arg) == [op |-> op, arg |-> arg]

Init ==
  /\ pc = "start"
  /\ run = 1
  /\ packageFile \in PackageDocuments
  /\ destructiveFile \in DestructiveDocuments
  /\ descriptors \in DescriptorDirectories
  /\ remote \in RemoteOrgs
  /\ deletedFlows = <<>>
  /\ flowDefinitions = <<>>
  /\ index = 1
  /\ versions = <<>>
  /\ effects = <<>>
  /\ atStart = Files
  /\ afterFirst = Files
  /\ script = "flow-delete.js"
  /\ typeArg = "none"

\* The guard letting an empty list through.
hasDeletedFlowsOrNone(flows) == Len(flows) >= 0

\* if (deletedFlows.length > 0)
hasDeletedFlows(flows) == Len(flows) > 0

\* Lines 41-57 and 66-68: parse both manifests, extract and strip the delete
\* list, and branch on it.  flow.split throws on an undefined member.
ReadManifests ==
  /\ pc = "start"
  /\ LET destructiveXml      == parse(destructiveFile)
         manifest            == parse(packageFile)
         existingDefinitions == filterType(manifest, "FlowDefinition").members
         members             == filterType(destructiveXml, "Flow").members
         stripped            == [i \in 1..Len(members) |-> stripVersion(members[i])]
     IN  IF Undefined \in Range(members)
         THEN /\ pc' = "aborted"
              /\ UNCHANGED <<deletedFlows, flowDefinitions>>
         ELSE /\ deletedFlows' = stripped
              /\ IF hasDeletedFlows(stripped)
                 THEN /\ pc' = "deactivate"
                      /\ flowDefinitions' = existingDefinitions \o stripped
                 ELSE /\ pc' = "noop"
                      /\ UNCHANGED flowDefinitions
  /\ index' = 1
  /\ UNCHANGED <<run, packageFile, destructiveFile, descriptors, remote,
                 versions, effects, atStart, afterFirst, script, typeArg>>

\* Lines 78-92: one iteration of the forEach of deactivateFlows.
DeactivateFlow ==
  /\ pc = "deactivate"
  /\ LET flow   == deletedFlows[index]
         result == deactivateFlow(descriptors, flow)
     IN  IF result.threw
         THEN /\ pc' = "aborted"
              /\ UNCHANGED <<descriptors, effects, index>>
         ELSE /\ descriptors' = result.dir
              /\ effects' = Append(effects, Effect("descriptor", <<flow>>))
              /\ index' = index + 1
              /\ pc' = IF index = Len(deletedFlows) THEN "updatePackage"
                       ELSE "deactivate"
  /\ UNCHANGED <<run, packageFile, destructiveFile, remote, deletedFlows,
                 flowDefinitions, versions, atStart, afterFirst, script, typeArg>>

\* Line 62: updateManifest(packagePath, flowDefinitions, "FlowDefinition")
UpdatePackageManifest ==
  /\ pc = "updatePackage"
  /\ LET result == updateManifest(packageFile, flowDefinitions, "FlowDefinition")
     IN  IF result.threw
         THEN /\ pc' = "aborted"
              /\ UNCHANGED <<packageFile, effects>>
         ELSE /\ packageFile' = result.doc
              /\ effects' = Append(effects, Effect("package", <<>>))
              /\ pc' = "query"
  /\ UNCHANGED <<run, destructiveFile, descriptors, remote, deletedFlows,
                 flowDefinitions, index, versions, atStart, afterFirst, script, typeArg>>

\* One query for each name instead of one for all.
issueQueryPerName(issued, flows) ==
  issued \o [i \in 1..Len(filterBoolean(flows)) |->
               Effect("query", <<filterBoolean(flows)[i]>>)]

\* The queries one call of fetchFlowVersions issues (lines 142-147).
issueQuery(issued, flows) ==
  Append(issued, Effect("query", filterBoolean(flows)))

\* Line 65, lines 140-162: fetchFlowVersions(deletedFlows).  The sf process
\* answers with the matching records, or with output that has no
\* result.records, on which line 157 throws.
FetchFlowVersions ==
  /\ pc = "query"
  /\ effects' = issueQuery(effects, deletedFlows)
  /\ \E answered \in BOOLEAN :
       IF answered
       THEN /\ versions' = formattedFlowNames(
                             queryRecords(remote, filterBoolean(deletedFlows)))
            /\ pc' = "updateDestructive"
       ELSE /\ pc' = "aborted"
            /\ UNCHANGED versions
  /\ UNCHANGED <<run, packageFile, destructiveFile, descriptors, remote,
                 deletedFlows, flowDefinitions, index, atStart, afterFirst, script, typeArg>>

\* Line 65: updateManifest(destructivePath, <versions>, "Flow")
UpdateDestructiveManifest ==
  /\ pc = "updateDestructive"
  /\ LET result == updateManifest(destructiveFile, versions, "Flow")
     IN  IF result.threw
         THEN /\ pc' = "aborted"
              /\ UNCHANGED <<destructiveFile, effects>>
         ELSE /\ destructiveFile' = result.doc
              /\ effects' = Append(effects, Effect("destructive", <<>>))
              /\ pc' = "done"
  /\ UNCHANGED <<run, packageFile, descriptors, remote, deletedFlows,
                 flowDefinitions, index, versions, atStart, afterFirst, script, typeArg>>

\* The script is run again on the files the finished run left, against the
\* same org.
RunAgain ==
  /\ pc \in {"done", "noop"}
  /\ run < MaxRuns
  /\ pc' = "start"
  /\ run' = run + 1
  /\ deletedFlows' = <<>>
  /\ flowDefinitions' = <<>>
  /\ index' = 1
  /\ versions' = <<>>
  /\ effects' = <<>>
  /\ atStart' = Files
  /\ afterFirst' = IF run = 1 THEN Files ELSE afterFirst
  /\ UNCHANGED <<packageFile, destructiveFile, descriptors, remote, script,
                 typeArg>>

Next ==
  \/ ReadManifests
  \/ DeactivateFlow
  \/ UpdatePackageManifest
  \/ FetchFlowVersions
  \/ UpdateDestructiveManifest
  \/ RunAgain

Spec == Init /\ [][Next]_vars

\* ------------------------------------------------------------ direct calls
\* The functions of either script called on their own: updateManifest
\* MaxRuns times in a row with the same arguments on packageFile (run counts
\* the calls, afterFirst holds the file the first call left), and
\* deactivateFlows once with deletedFlows as its argument.
Scripts == {"flow-delete.js", "flowDelete.js"}

FlowLists == UNION {[1..n -> {FlowA, FlowB, FlowC}] : n \in 0..MaxMembers}

\* What sf project retrieve start leaves for a flow it retrieves.
RetrievedDescriptor == ActiveDescriptor("retrieved")

InitCalls ==
  /\ script \in Scripts
  /\ pc \in {"updateManifest", "deactivateFlows"}
  /\ run = 1
  /\ IF pc = "updateManifest"
     THEN /\ packageFile \in PackageDocuments \cup
                             {Document(<<TypeEntry("Flow", <<FlowA, FlowB>>)>>)}
          /\ typeArg \in {"Flow", "FlowDefinition"}
          /\ flowDefinitions \in FlowLists
          /\ deletedFlows = <<>>
          /\ descriptors = {}
     ELSE /\ packageFile = Document(<<>>)
          /\ typeArg = "none"
          /\ flowDefinitions = <<>>
          /\ deletedFlows \in FlowLists
          /\ descriptors \in DescriptorDirectories
  /\ destructiveFile = Document(<<>>)
  /\ remote = <<>>
  /\ index = 1
  /\ versions = <<>>
  /\ effects = <<>>
  /\ atStart = Files
  /\ afterFirst = Files

\* updateManifest(path, members, type), lines 114-133 of flow-delete.js or
\* lines 75-92 of flowDelete.js.
CallUpdateManifest ==
  /\ pc = "updateManifest"
  /\ LET result == IF script = "flow-delete.js"
                   THEN updateManifest(packageFile, flowDefinitions, typeArg)
                   ELSE updateManifestLegacy(packageFile, flowDefinitions, typeArg)
     IN  IF result.threw
         THEN /\ pc' = "threw"
              /\ UNCHANGED <<packageFile, effects, run, afterFirst>>
         ELSE /\ packageFile' = result.doc
              /\ effects' = Append(effects, Effect("package", <<>>))
              /\ run' = run + 1
              /\ afterFirst' = IF run = 1
                               THEN [Files EXCEPT !.package = result.doc]
                               ELSE afterFirst
              /\ pc' = IF run = MaxRuns THEN "returned" ELSE "updateManifest"
  /\ UNCHANGED <<destructiveFile, descriptors, remote, deletedFlows,
                 flowDefinitions, index, versions, atStart, script, typeArg>>

\* flow-delete.js deactivateFlows, line 76: the directory is made, and the
\* forEach starts.
EnterDeactivateFlows ==
  /\ pc = "deactivateFlows"
  /\ script = "flow-delete.js"
  /\ pc' = IF deletedFlows = <<>> THEN "returned" ELSE "forEach"
  /\ UNCHANGED <<run, packageFile, destructiveFile, descriptors, remote,
                 deletedFlows, flowDefinitions, index, versions, effects,
                 atStart, afterFirst, script, typeArg>>

\* flowDelete.js deactivateFlows, lines 48-55: sf project retrieve start is
\* spawned for all the flows, its status ignored; it leaves a descriptor
\* for the flows it retrieves and nothing for the others.
RetrieveFlows ==
  /\ pc = "deactivateFlows"
  /\ script = "flowDelete.js"
  /\ \E retrieved \in SUBSET Range(deletedFlows) :
       descriptors' = {f \in descriptors : f.flow \notin retrieved}
                        \cup {DescriptorFile(n, RetrievedDescriptor) : n \in retrieved}
  /\ pc' = IF deletedFlows = <<>> THEN "returned" ELSE "forEach"
  /\ UNCHANGED <<run, packageFile, destructiveFile, remote, deletedFlows,
                 flowDefinitions, index, versions, effects, atStart,
                 afterFirst, script, typeArg>>

\* One iteration of the forEach that writes the descriptors, lines 78-92
\* of flow-delete.js or lines 57-66 of flowDelete.js.
DeactivateNext ==
  /\ pc = "forEach"
  /\ LET flow   == deletedFlows[index]
         result == IF script = "flow-delete.js"
                   THEN deactivateFlow(descriptors, flow)
                   ELSE deactivateFlowLegacy(descriptors, flow)
     IN  IF result.threw
         THEN /\ pc' = "threw"
              /\ UNCHANGED <<descriptors, effects, index>>
         ELSE /\ descriptors' = result.dir
              /\ effects' = Append(effects, Effect("descriptor", <<flow>>))
              /\ index' = index + 1
              /\ pc' = IF index = Len(deletedFlows) THEN "returned" ELSE "forEach"
  /\ UNCHANGED <<run, packageFile, destructiveFile, remote, deletedFlows,
                 flowDefinitions, versions, atStart, afterFirst, script,
                 typeArg>>

NextCalls ==
  \/ CallUpdateManifest
  \/ EnterDeactivateFlows
  \/ RetrieveFlows
  \/ DeactivateNext

SpecCalls == InitCalls /\ [][NextCalls]_vars

\* ------------------------------------------------- reading the state
\* The <members> a file holds under the named type (none if no such type).
TypeMembers(doc, name) ==
  IF findType(doc.types, name) = 0 THEN <<>>
  ELSE doc.types[findType(doc.types, name)].members

NoDuplicates(s) == \A i, j \in 1..Len(s) : s[i] = s[j] => i = j

Count(op) == Cardinality({i \in 1..Len(effects) : effects[i].op = op})

\* The delete list as the driver extracts it from the file the run started on.
ExtractedMembers == filterType(parse(atStart.destructive), "Flow").members

\* The last position of the separator in a member, 0 if it has none.
LastSeparator(m) ==
  IF \E i \in 1..Len(m) : m[i] = "-"
  THEN CHOOSE i \in 1..Len(m) :
         m[i] = "-" /\ \A j \in (i + 1)..Len(m) : m[j] # "-"
  ELSE 0

\* A member of the form name-version: a non-empty name, the separator and
\* a non-empty run of digits.
IsQualified(m) ==
  /\ LastSeparator(m) > 1
  /\ LastSeparator(m) < Len(m)
  /\ \A j \in (LastSeparator(m) + 1)..Len(m) : m[j] \in Range(DigitChars)

BeforeLastSeparator(m) == SubSeq(m, 1, LastSeparator(m) - 1)

\* ------------------------------------------------------------------ claims

\* C1: after a run with a non-empty delete list, the package manifest's
\* FlowDefinition members are exactly the union of the members it had and
\* the stripped delete-list names, and no name occurs twice, whether the
\* entry existed or was appended.
C1_PackageUnionNoDuplicates ==
  pc = "done" =>
    LET after  == TypeMembers(packageFile, "FlowDefinition")
        before == TypeMembers(atStart.package, "FlowDefinition")
    IN  /\ Range(after) = Range(before) \cup Range(deletedFlows)
        /\ NoDuplicates(after)

\* C2: after a run with a non-empty delete list, the destructive manifest's
\* Flow members are exactly one name-version identifier for every remote
\* record of a stripped name: the previous members are replaced, not
\* merged, and a name without records contributes nothing.
C2_DestructiveReplaced ==
  pc = "done" =>
    LET after == TypeMembers(destructiveFile, "Flow")
    IN  /\ Range(after) =
             {formatVersion(r) :
                r \in {x \in Range(remote) : x.DeveloperName \in Range(deletedFlows)}}
        /\ NoDuplicates(after)
        /\ Cardinality({i \in 1..Len(destructiveFile.types) :
                          destructiveFile.types[i].name = "Flow"}) = 1

\* C2 witness: a first run that ended with two identifiers of one name in
\* place of the bare names, one of which has no remote record.
C2_Witness ==
  /\ pc = "done"
  /\ run = 1
  /\ TypeMembers(atStart.destructive, "Flow") = <<FlowB, FlowA>>
  /\ TypeMembers(destructiveFile, "Flow") = << <<"A", "-", "1">>, <<"A", "-", "2">> >>

C5_NoManifestWrittenBeforeAbort ==
  pc = "aborted" => Count("package") = 0 /\ Count("destructive") = 0

\* C6: every delete-list entry of the form name-version is stripped to the
\* name before its last separator.
C6_StrippedAtLastSeparator ==
  (pc \notin {"start", "aborted", "noop"}) =>
    \A i \in 1..Len(ExtractedMembers) :
      IsQualified(ExtractedMembers[i]) =>
        deletedFlows[i] = BeforeLastSeparator(ExtractedMembers[i])

\* C8: no run issues a version query that names no artifact; a list of
\* nothing but empty strings issues no request.
C8_NoQueryWithoutNames ==
  \A i \in 1..Len(effects) :
    effects[i].op = "query" => effects[i].arg # <<>>

\* C9: a second run against the same remote records leaves both manifests
\* and every descriptor as the first run left them.
C9_SecondRunChangesNothing ==
  (run >= 2 /\ pc \in {"done", "noop"}) => Files = afterFirst

\* C10: a run with a non-empty delete list issues one version query, for
\* all the stripped names at once (an empty name is no name), after every
\* descriptor is written and before the destructive manifest is written,
\* and writes each manifest once.
C10_OneBatchedQueryInOrder ==
  /\ Count("query") <= 1
  /\ Count("package") <= 1
  /\ Count("destructive") <= 1
  /\ \A q \in 1..Len(effects) :
       effects[q].op = "query" =>
         /\ Range(effects[q].arg) = Range(deletedFlows) \ {<<>>}
         /\ Cardinality({j \in 1..(q - 1) : effects[j].op = "descriptor"})
              = Len(deletedFlows)
         /\ \A n \in Range(deletedFlows) :
              \E j \in 1..(q - 1) : effects[j] = Effect("descriptor", <<n>>)
         /\ \A j \in 1..(q - 1) : effects[j].op # "destructive"
  /\ \A d \in 1..Len(effects) :
       effects[d].op = "destructive" =>
         \E q \in 1..(d - 1) : effects[q].op = "query"
  /\ pc = "done" =>
       /\ Count("query") = 1
       /\ Count("package") = 1
       /\ Count("destructive") = 1

\* C10 witness: a finished run whose one query named two different flows.
C10_Witness ==
  /\ pc = "done"
  /\ Len(deletedFlows) = 2
  /\ deletedFlows[1] # deletedFlows[2]
  /\ \E q \in 1..Len(effects) :
       effects[q] = Effect("query", deletedFlows)

\* C4: when deactivateFlows(names) is over it has not failed for want of a
\* descriptor, and every name has a descriptor with activeVersionNumber 0:
\* the minimal one if it had none, its own with every other field kept if
\* it had one.
C4_EveryFlowDeactivated ==
  /\ pc = "threw" /\ deletedFlows # <<>> =>
       existsSync(descriptors, deletedFlows[index])
  /\ pc = "returned" =>
       \A n \in Range(deletedFlows) :
         /\ existsSync(descriptors, n)
         /\ readDescriptor(descriptors, n) =
              IF existsSync(atStart.descriptors, n)
              THEN [readDescriptor(atStart.descriptors, n)
                      EXCEPT !.activeVersionNumber = 0]
              ELSE [root |-> TRUE, activeVersionNumber |-> 0, rest |-> "xmlns"]

\* C7: a second call of updateManifest with the same member list leaves the
\* type's entry as the first call left it.
C7_UpdateManifestIdempotent ==
  (typeArg # "none" /\ run > 2) =>
    TypeMembers(packageFile, typeArg) = TypeMembers(afterFirst.package, typeArg)

=============================================================================
